---- MODULE Spec2Model ----
(***************************************************************************)
(* A model of lib/chain.js: the Chain entity, its step queue, the          *)
(* resolution engine (Chain.prototype.resolve and its inner resolve        *)
(* closure), the step execution context, and the module-level entry        *)
(* points.  One action of the model is one synchronous run-to-completion   *)
(* call made from the event loop (a constructor call, a public chain call, *)
(* a scheduled tick, an asynchronous call on a retained context, ...); the *)
(* synchronous recursion inside it is computed by recursive operators that *)
(* follow the source function by function.                                 *)
(***************************************************************************)
EXTENDS Integers, Sequences, FiniteSets, TLC

VARIABLES
    chains,      \* Seq of Chain objects (index = identity of the object)
    ctxs,        \* Seq of execution contexts `obj` with their closure variables
    log,         \* history of each chain: pushes, dequeues, handler starts ...
    ticks,       \* callbacks handed to process.nextTick, in order
    nsteps,      \* number of step arrays created so far (identity of a step)
    gImmediate,  \* the module variable _immediate
    calls,       \* callbacks held by external code (adapters, foreign thenables)
    allst,       \* closure variables of all()
    bridges      \* closure variables args, success, ch of the _chain calls
                 \* that were given a chainable as fallback

vars == <<chains, ctxs, log, ticks, nsteps, gImmediate, calls, allst, bridges>>

(***************************************************************************)
(* Bounds of the model.                                                    *)
(***************************************************************************)
\* steps appended from the top level (handlers may inject more)
MaxSteps == 3

(***************************************************************************)
(* JavaScript values.  Every value has the same record shape so that any   *)
(* two values can be compared: k = "u" undefined, "s" a scalar, "a" an     *)
(* array (of values), "c" a Chain object, "t" a foreign thenable, "x" the   *)
(* context object of a handler call.                                       *)
(***************************************************************************)
Undef == [k |-> "u", s |-> 0, a |-> <<>>]
Sc(n) == [k |-> "s", s |-> n, a |-> <<>>]
Arr(xs) == [k |-> "a", s |-> 0, a |-> xs]
ChainRef(c) == [k |-> "c", s |-> c, a |-> <<>>]
Thenable(n) == [k |-> "t", s |-> n, a |-> <<>>]
CtxRef(x) == [k |-> "x", s |-> x, a |-> <<>>]

\* new Error('No reason given') of the context's reject, new Error() of fail
NoReasonGiven == [k |-> "s", s |-> 90, a |-> <<>>]
NewError == [k |-> "s", s |-> 91, a |-> <<>>]
\* the TypeError of reading a property of undefined
TypeError == [k |-> "s", s |-> 92, a |-> <<>>]
\* no exception is in flight
NoException == [k |-> "n", s |-> 0, a |-> <<>>]

IsUndefined(v) == v.k = "u"
IsArray(v) == v.k = "a"
\* JavaScript truthiness; the scalar 0 stands for the falsy scalars
Truthy(v) == ~(v.k = "u" \/ (v.k = "s" /\ v.s = 0))

\* object && typeof object.then === 'function'
isThenable(v) == v.k \in {"c", "t"}
\* object && typeof object.chain === 'function': a Chain or a context
isChainable(v) == v.k \in {"c", "x"}

\* Array.isArray(v) ? v : [v]
ArgsOf(v) == IF IsArray(v) THEN v.a ELSE <<v>>

(***************************************************************************)
(* Handlers are data: `kind` names what the function body does with its    *)
(* context and how it ends, `arg` and `n` are the body's parameters.       *)
(***************************************************************************)
NoFn == [kind |-> "none", arg |-> Undef, n |-> 0]
Fn(kind, arg) == [kind |-> kind, arg |-> arg, n |-> 0]
FnN(kind, arg, n) == [kind |-> kind, arg |-> arg, n |-> n]
IsFunction(h) == "kind" \in DOMAIN h /\ h.kind # "none"
\* the fallback given to chain is an object with a chain method
IsChain(h) == "k" \in DOMAIN h /\ isChainable(h)

\* events of the history variable
EvV(e, c, st, x, m, a, v) ==
    [e |-> e, ch |-> c, st |-> st, cx |-> x, m |-> m, a |-> a, v |-> v]
Ev(e, c, st, x, m, a) == EvV(e, c, st, x, m, a, Undef)
Flag(b) == IF b THEN Sc(1) ELSE Sc(0)

(***************************************************************************)
(* The world the recursive operators transform: the variables as a record, *)
(* and the exception in flight, if any.                                    *)
(***************************************************************************)
World == [ch |-> chains, cx |-> ctxs, log |-> log, ticks |-> ticks,
          ns |-> nsteps, gi |-> gImmediate, calls |-> calls, al |-> allst,
          br |-> bridges, exc |-> NoException]

\* an exception is propagating up the call stack
Raised(w) == w.exc # NoException

Logged(w, ev) == [w EXCEPT !.log[ev.ch] = Append(@, ev)]

\* the element of a one-element set; Only({e(w) : w \in {w0}}) is e(w0) with
\* w0 evaluated once, however often e reads it
Only(S) == CHOOSE r \in S : TRUE

\* the first argument of the constructor: a plain value, one of the sentinels
\* NOW, TICK, PAUSE, or an object {now, tick, pause, value}
Plain(v) == [t |-> "plain", now |-> FALSE, tick |-> FALSE, pause |-> FALSE, value |-> v]
Sentinel(t) == [t |-> t, now |-> FALSE, tick |-> FALSE, pause |-> FALSE, value |-> Undef]
Obj(now, tick, pause, v) == [t |-> "obj", now |-> now, tick |-> tick, pause |-> pause, value |-> v]

(***************************************************************************)
(* function Chain(value, fallback, errback, noHijack): the fields set      *)
(* before the closing this.chain(...) call.  `init` describes the value    *)
(* argument: t = "NOW" | "TICK" | "PAUSE" | "obj" | "plain"; for "obj" the *)
(* flags say which of value.tick, value.now, value.pause hold a sentinel   *)
(* (an object holding none of them is a plain value).  `ref` is not a      *)
(* field of the object: it says that the caller of `new` got the object.   *)
(***************************************************************************)
NewChain(init, gi) ==
    LET base == [resolving |-> FALSE, pending |-> <<>>, unPending |-> <<>>,
                 errors |-> <<>>, immediate |-> gi, paused |-> FALSE,
                 value |-> Undef, error |-> Undef, ref |-> TRUE]
    IN  CASE init.t = "NOW" -> [base EXCEPT !.immediate = TRUE]
          [] init.t = "TICK" -> [base EXCEPT !.immediate = FALSE]
          [] init.t = "PAUSE" -> [base EXCEPT !.paused = TRUE]
          [] init.t = "obj" ->
                [base EXCEPT
                   !.immediate = IF init.now THEN TRUE
                                 ELSE IF init.tick THEN FALSE ELSE gi,
                   !.paused = init.pause,
                   !.value = init.value]
          [] OTHER -> [base EXCEPT !.value = init.value]

\* which of fns[0], fns[1] are functions (read by the history only)
Slots(fns) ==
    IF IsFunction(fns.fb) THEN (IF IsFunction(fns.eb) THEN "fe" ELSE "f") ELSE "e"

\* the step array pushed by _chain; id is the identity of the array
Step(fb, eb, raw, id) == [fb |-> fb, eb |-> eb, raw |-> raw, id |-> id]

RECURSIVE Resolve(_, _, _)
RECURSIVE PublicChain(_, _, _, _, _)
RECURSIVE CtxNext(_, _, _)
RECURSIVE Exec(_, _)
RECURSIVE Chain_(_, _, _, _, _, _)

\* (prepend ? ctx._unPending : ctx._pending).push([fallback, errback, noHijack])
Pushed(w, c, fb, eb, raw, prepend) ==
    IF IsFunction(fb) \/ IsFunction(eb)
    THEN LET id == w.ns + 1
             st == Step(fb, eb, raw, id)
             w1 == [w EXCEPT !.ns = id,
                             !.ch[c].pending = IF prepend THEN @ ELSE Append(@, st),
                             !.ch[c].unPending = IF prepend THEN Append(@, st) ELSE @]
         IN  Logged(w1, EvV("app", c, id, 0, IF prepend THEN "prio" ELSE "main",
                            [i \in 1..Len(w.ch[c].pending) |-> Sc(w.ch[c].pending[i].id)],
                            Arr(<<Flag(w.ch[c].immediate), Flag(w.ch[c].resolving),
                                  Flag(w.ch[c].paused)>>)))
    ELSE w

\* object.chain(fb, eb) on a chainable: a Chain's chain or a context's chain
ChainOf(w, v, fb, eb) ==
    IF v.k = "c"
    THEN PublicChain(w, v.s, fb, eb, FALSE)
    ELSE Chain_(w, w.cx[v.s].ch, fb, eb, FALSE, TRUE)

\* var args, success, ch of one _chain call; ch = 0 while unassigned
NoBridge == [set |-> FALSE, args |-> <<>>, success |-> FALSE, ch |-> 0]

\* fallback.chain(function() {...}, function() {...}) with the two listeners of
\* the closure variables br
Listening(w0, fb, br) == Only({
    ChainOf([w EXCEPT !.br = Append(@, NoBridge)], fb,
            FnN("bridgeOk", Undef, br), FnN("bridgeErr", Undef, br))
        : w \in {w0}})

\* after fallback.chain(...): fallback = function() {...}, then the push
Bridged(w0, c, eb, raw, prepend, br) == Only({
    IF Raised(w) THEN w ELSE Pushed(w, c, FnN("bridge", Flag(raw), br), eb, raw, prepend)
        : w \in {w0}})

\* _chain(ctx, fallback, errback, noHijack, prepend)
Chain_(w, c, fb, eb, raw, prepend) ==
    IF IsChain(fb)
    THEN Bridged(Listening(w, fb, Len(w.br) + 1), c, eb, raw, prepend, Len(w.br) + 1)
    ELSE Pushed(w, c, fb, eb, raw, prepend)

\* mutant: the injected steps are pushed behind the queue instead of in front
MergedBehind(chn) == chn.pending \o chn.unPending

\* this._pending.unshift.apply(this._pending, this._unPending)
Merged(chn) == chn.unPending \o chn.pending

\* mutant: the element after the head is removed instead of the head
ShiftSecond(q) == IF Len(q) > 1 THEN <<Head(q)>> \o Tail(Tail(q)) ELSE Tail(q)

\* this._pending.shift(): what stays queued (the head is the step taken)
ShiftRest(q) == Tail(q)

\* the arguments the inner resolve works with
SelectArgs(chn, args) == IF Len(args) = 0 THEN ArgsOf(chn.value) ELSE args

\* function delay(): the guard and the effect
DelayGuard(cx) == ~cx.skip

\* mutant: every call of next is honoured
NextAlways(cx) == TRUE

\* function next(): the once-only guard
NextGuard(cx) == ~cx.nextOnce

\* mutant: the pending error is not looked at
ErrorIgnored(chn) == FALSE

\* the mode test of the inner resolve
ErrorPending(chn) == ~IsUndefined(chn.error)

\* value of a success handler's return for the continuation
SuccessValue(v) == IF IsUndefined(v) THEN Arr(<<>>) ELSE v

\* value of a failure handler's return for the continuation
FailureValue(v, err) == IF IsUndefined(v) THEN Arr(<<err>>) ELSE v

\* mutant: a paused chain keeps draining
NeverPaused(chn) == FALSE

\* if( this._paused ) return;
PausedGuard(chn) == chn.paused

\* the test that sends the continuation back to resolve.call(this)
Interrupted(chn, cx) == cx.skip \/ chn.paused \/ ErrorPending(chn)

(***************************************************************************)
(* Function bodies are straight-line programs: sequences of instructions,  *)
(* each one call made by the body (on its context, on a chain) or one      *)
(* assignment to the closure variables of all().  Exec runs a program.     *)
(***************************************************************************)
Ins(op, c, x, m, a, v, fb, eb) ==
    [op |-> op, c |-> c, x |-> x, m |-> m, a |-> a, v |-> v, fb |-> fb, eb |-> eb]
\* the body hands `this` to code that may call it later
IHold(x) == Ins("hold", 0, x, "", <<>>, Undef, NoFn, NoFn)
\* this.delay()
IDelay(x) == Ins("delay", 0, x, "", <<>>, Undef, NoFn, NoFn)
\* ctx.next(a...)
INext(x, a) == Ins("next", 0, x, "", a, Undef, NoFn, NoFn)
\* ctx.reject(v)
IReject(x, v) == Ins("reject", 0, x, "", <<>>, v, NoFn, NoFn)
\* this.chain(fb, eb)
IInject(x, fb, eb) == Ins("inject", 0, x, "", <<>>, Undef, fb, eb)
\* chain.chain(fb, eb)
IAppend(c, fb, eb) == Ins("append", c, 0, "", <<>>, Undef, fb, eb)
\* chain.resolve()
ITrigger(c) == Ins("trigger", c, 0, "", <<>>, Undef, NoFn, NoFn)
\* self._paused = false; [self._error = err;] resolve.apply(self, ...)
INest(c, x, m, a) == Ins("nest", c, x, m, a, Undef, NoFn, NoFn)
\* call.apply(context, args) of an adapter; x is obj, v the new context
IInvoke(c, x, m, a, v) == Ins("invoke", c, x, m, a, v, NoFn, NoFn)
\* the observer given to then() is called
IObserve(c, x, m, a) == Ins("observe", c, x, m, a, Undef, NoFn, NoFn)
\* the assignments of a listener of all() for entry x
IAllOk(x, a) == Ins("allOk", 0, x, "", a, Undef, NoFn, NoFn)
IAllErr(x, v) == Ins("allErr", 0, x, "", <<>>, v, NoFn, NoFn)
\* results[i] = values[i]; complete++
IPlain(x, v) == Ins("plain", 0, x, "", <<>>, v, NoFn, NoFn)
\* values[k].then(listener, listener) on a foreign thenable
IRegister(x) == Ins("register", 0, x, "", <<>>, Undef, NoFn, NoFn)
\* args = Array.prototype.slice.call(arguments); success = ... of the
\* listeners of the _chain call with closure variables c
IBridged(c, m, a) == Ins("bridged", c, 0, m, a, Undef, NoFn, NoFn)
\* ch = this.delay(): the assignment to ch of the closure variables c
IBridgeCh(c, x) == Ins("bridgeCh", c, x, "", <<>>, Undef, NoFn, NoFn)
\* whenDone()
IWhenDone == Ins("whenDone", 0, 0, "", <<>>, Undef, NoFn, NoFn)

\* function delay() of the context
CtxDelay(w, x) ==
    IF DelayGuard(w.cx[x])
    THEN Logged([w EXCEPT !.cx[x].skip = TRUE, !.ch[w.cx[x].ch].paused = TRUE],
                Ev("delay", w.cx[x].ch, w.cx[x].st, x, "", <<>>))
    ELSE w

\* function chain(fallback, errback, noHijack) / fail(errback) of the context
CtxChain(w, x, fb, eb, raw) == Chain_(w, w.cx[x].ch, fb, eb, raw, TRUE)

\* function next() of the context
CtxNext(w, x, args) ==
    IF NextGuard(w.cx[x])
    THEN Resolve(Logged([w EXCEPT !.cx[x].nextOnce = TRUE, !.cx[x].skip = TRUE,
                                   !.ch[w.cx[x].ch].paused = FALSE],
                        EvV("resume", w.cx[x].ch, w.cx[x].st, x, "hon", args,
                            w.ch[w.cx[x].ch].error)),
                 w.cx[x].ch, args)
    ELSE Logged(w, EvV("resume", w.cx[x].ch, w.cx[x].st, x, "nop", args,
                       w.ch[w.cx[x].ch].error))

\* function reject(reason) of the context
CtxReject(w, x, reason) ==
    CtxNext([w EXCEPT !.ch[w.cx[x].ch].error =
                        IF Truthy(reason) THEN reason ELSE NoReasonGiven], x, <<>>)

\* mutant: resolve runs the queue inside the call whatever the flag says
RunsAlways(chn) == TRUE

\* if( !this._immediate ) process.nextTick(...) else run now
RunsNow(chn) == chn.immediate

\* mutant: the deferred drain is not handed to the event loop
NotScheduled(tk, c) == tk

\* nextTick(function() { resolve.call(self) })
Scheduled(tk, c) == Append(tk, c)

\* Chain.prototype.resolve
PublicResolve(w, c) ==
    IF Len(w.ch[c].pending) = 0 \/ w.ch[c].resolving
    THEN w
    ELSE IF ~RunsNow(w.ch[c])
    THEN [w EXCEPT !.ch[c].resolving = TRUE, !.ticks = Scheduled(@, c)]
    ELSE Resolve([w EXCEPT !.ch[c].resolving = TRUE, !.ch[c].immediate = w.gi], c, <<>>)

\* the return of Chain.prototype.chain, noted in the history
Attached(w, c, id, pushed) ==
    IF pushed /\ ~Raised(w) THEN Logged(w, Ev("attached", c, id, 0, "", <<>>)) ELSE w

\* this.resolve(); return this, after _chain pushed the step w.ns (if any)
Triggered(w0, c, pushed) == Only({
    IF Raised(w) THEN w ELSE Attached(PublicResolve(w, c), c, w.ns, pushed)
        : w \in {w0}})

\* Chain.prototype.chain
PublicChain(w, c, fb, eb, raw) ==
    Triggered(Chain_(w, c, fb, eb, raw, FALSE), c,
              IsChain(fb) \/ IsFunction(fb) \/ IsFunction(eb))

(***************************************************************************)
(* all(values): its closure variables are the record w.al.                 *)
(***************************************************************************)
\* mutant: a result is stored at the position of its arrival
SlotByArrival(k, complete) == complete

\* results[k] = ...
ResultSlot(k, complete) == k

\* arguments.length > 1 ? Array.prototype.slice.call(arguments) : arguments[0]
Delivered(args) ==
    IF Len(args) > 1 THEN Arr(args) ELSE IF Len(args) = 1 THEN args[1] ELSE Undef

\* function whenDone(): the call it makes, if any
WhenDone(w) ==
    IF w.al.complete = w.al.len
    THEN IF w.al.hasErr
         THEN <<IReject(w.al.ctx, w.al.firstErr)>>
         ELSE <<INext(w.al.ctx, <<Arr(w.al.results)>>)>>
    ELSE <<>>

\* the success listener of entry k: its assignments
AllOk(w, k, args) ==
    Logged([w EXCEPT !.al.complete = @ + 1, !.al.done[k] = TRUE,
                     !.al.results[ResultSlot(k, w.al.complete + 1)] = Delivered(args)],
           Ev("deliver", w.al.ch, k, 0, "ok", args))

\* the failure listener of entry k: its assignments
AllErr(w, k, err) ==
    Logged([w EXCEPT !.al.complete = @ + 1, !.al.done[k] = TRUE,
                     !.al.firstErr = IF Truthy(@) THEN @ ELSE err,
                     !.al.hasErr = TRUE,
                     !.al.errResults[k] = err],
           Ev("deliver", w.al.ch, k, 0, "err", <<err>>))

\* mutant: the success listener does not look at done
NotOnce(w, k, args) == <<IAllOk(k, args), IWhenDone>>

\* the listeners of entry k up to and including whenDone(): if( done ) return
AllOkBody(w, k, args) ==
    IF w.al.done[k] THEN <<>> ELSE <<IAllOk(k, args), IWhenDone>>
AllErrBody(w, k, err) ==
    IF w.al.done[k] THEN <<>> ELSE <<IAllErr(k, err), IWhenDone>>

\* the for loop of all() and the whenDone() after it
AllProgram(values) ==
    [i \in 1..Len(values) |->
        IF ~isThenable(values[i]) THEN IPlain(i, values[i])
        ELSE IF isChainable(values[i])
        THEN IAppend(values[i].s, FnN("allOk", Undef, i), FnN("allErr", Undef, i))
        ELSE IRegister(i)] \o <<IWhenDone>>

(***************************************************************************)
(* The function bodies.  c is the chain the step belongs to, x the context *)
(* `obj` of this invocation (bound as `this`), args the arguments.         *)
(***************************************************************************)
Body(w, c, x, h, args) ==
    CASE h.kind \in {"delay", "delayThrow"} -> <<IHold(x), IDelay(x)>>
      [] h.kind = "keep" -> <<IHold(x)>>
      [] h.kind = "next" -> <<INext(x, ArgsOf(h.arg))>>
      [] h.kind = "delayNext" -> <<IDelay(x), INext(x, ArgsOf(h.arg))>>
      [] h.kind = "reject" -> <<IReject(x, h.arg)>>
      \* this.chain(f) once or twice, f returning arg
      [] h.kind = "inject" ->
            IF h.n > 1
            THEN <<IInject(x, Fn("ret", h.arg), NoFn), IInject(x, Fn("ret", h.arg), NoFn)>>
            ELSE <<IInject(x, Fn("ret", h.arg), NoFn)>>
      \* this.fail(f)
      [] h.kind = "injectFail" -> <<IInject(x, NoFn, Fn("ret", h.arg))>>
      \* theChain.chain(f) called on the owning chain from inside the handler
      [] h.kind = "append" -> <<IAppend(c, Fn("ret", h.arg), NoFn)>>
      \* theChain.resolve() called on the owning chain from inside the handler
      [] h.kind = "resolve" -> <<ITrigger(c)>>
      \* success listener the continuation attaches to a nested chain
      [] h.kind = "nestOk" -> <<INest(h.n, x, "ok", args)>>
      \* failure listener the continuation attaches to a nested chain
      [] h.kind = "nestErr" -> <<INest(h.n, x, "err", args), IReject(x, args[1])>>
      \* function() { this.aCall.apply(this, args) } / this.nCall.apply(this, args):
      \* the context's adapter injects the step that will make the call; its
      \* callback is bound to this context (obj)
      \* (h.n = 2: the body calls the adapter twice)
      [] h.kind = "aCall" ->
            IF h.n > 1
            THEN <<IInject(x, FnN("callA", h.arg, x), NoFn),
                   IInject(x, FnN("callA", h.arg, x), NoFn)>>
            ELSE <<IInject(x, FnN("callA", h.arg, x), NoFn)>>
      [] h.kind = "nCall" ->
            IF h.n > 1
            THEN <<IInject(x, FnN("callN", h.arg, x), NoFn),
                   IInject(x, FnN("callN", h.arg, x), NoFn)>>
            ELSE <<IInject(x, FnN("callN", h.arg, x), NoFn)>>
      \* the injected step: this.delay(); call.apply(context, args)
      [] h.kind = "callA" -> <<IDelay(x), IInvoke(c, h.n, "aCall", ArgsOf(h.arg), x)>>
      [] h.kind = "callN" -> <<IDelay(x), IInvoke(c, h.n, "nCall", ArgsOf(h.arg), x)>>
      \* _fallback of then(): the observer, if given, then ctx.next()
      [] h.kind = "thenOk" ->
            (IF Truthy(h.arg) THEN <<IObserve(c, x, "ok", args)>> ELSE <<>>)
                \o <<INext(h.n, <<>>)>>
      \* _errback of then(): the observer, ctx.next(), this.reject(err)
      [] h.kind = "thenErr" ->
            (IF Truthy(h.arg) THEN <<IObserve(c, x, "err", args)>> ELSE <<>>)
                \o <<INext(h.n, <<>>), IReject(x, args[1])>>
      \* success listener all() attaches to a chain entry
      [] h.kind = "allOk" -> AllOkBody(w, h.n, args)
      \* failure listener all() attaches to a chain entry: if( isC ) this.reject(err)
      [] h.kind = "allErr" ->
            IF w.al.done[h.n] THEN <<>>
            ELSE AllErrBody(w, h.n, args[1]) \o <<IReject(x, args[1])>>
      \* _callback of spread(): this.next.apply(undefined, res) unless it returns
      [] h.kind = "spread" ->
            IF Len(args) = 1
            THEN IF IsArray(args[1]) THEN <<INext(x, args[1].a)>> ELSE <<>>
            ELSE <<INext(x, args)>>
      \* return this.chain(f), f returning arg
      [] h.kind = "retInject" -> <<IInject(x, Fn("ret", h.arg), NoFn)>>
      \* the success listener _chain attaches to a chainable fallback
      [] h.kind = "bridgeOk" ->
            <<IBridged(h.n, "ok", args)>>
                \o (IF w.br[h.n].ch # 0 THEN <<INext(w.br[h.n].ch, args)>> ELSE <<>>)
      \* the failure listener _chain attaches to a chainable fallback
      [] h.kind = "bridgeErr" ->
            <<IBridged(h.n, "err", args)>>
                \o (IF w.br[h.n].ch # 0 THEN <<IReject(w.br[h.n].ch, args[1])>> ELSE <<>>)
      \* the function _chain puts in the place of a chainable fallback; with
      \* noHijack (h.arg) `this` is not the context and has no reject or delay
      [] h.kind = "bridge" ->
            IF Truthy(h.arg) THEN <<>>
            ELSE IF ~w.br[h.n].set THEN <<IDelay(x), IBridgeCh(h.n, x)>>
            ELSE IF w.br[h.n].success THEN <<>>
            ELSE <<IReject(x, IF Len(w.br[h.n].args) > 0 THEN w.br[h.n].args[1] ELSE Undef)>>
      \* "ret", "throw", "retChain", "retThenable", "retThis", "retCtx": the
      \* body makes no call
      [] OTHER -> <<>>

\* how the body ends: what it returns or throws; an exception that left a
\* call made by the body leaves the body
Result(w1, w0, x, h, args) == Only({
    CASE Raised(w) -> [w |-> [w EXCEPT !.exc = NoException], t |-> "throw", v |-> w.exc]
      [] h.kind \in {"throw", "delayThrow"} -> [w |-> w, t |-> "throw", v |-> h.arg]
      [] h.kind \in {"ret", "keep"} -> [w |-> w, t |-> "ret", v |-> h.arg]
      [] h.kind = "retChain" -> [w |-> w, t |-> "ret", v |-> ChainRef(h.n)]
      [] h.kind = "retThenable" -> [w |-> w, t |-> "ret", v |-> Thenable(h.n)]
      \* return this / return this.chain(f)
      [] h.kind \in {"retThis", "retInject"} -> [w |-> w, t |-> "ret", v |-> CtxRef(x)]
      \* return a context kept from an earlier call
      [] h.kind = "retCtx" -> [w |-> w, t |-> "ret", v |-> CtxRef(h.n)]
      \* if( args ) { if( success ) return args; else return this.reject(...) }
      \* ch = this.delay()
      [] h.kind = "bridge" ->
            IF w0.br[h.n].set /\ w0.br[h.n].success
            THEN [w |-> w, t |-> "ret", v |-> Arr(w0.br[h.n].args)]
            ELSE IF Truthy(h.arg)
            THEN [w |-> w, t |-> "throw", v |-> TypeError]
            ELSE [w |-> w, t |-> "ret",
                  v |-> IF w0.br[h.n].set THEN CtxRef(x) ELSE Undef]
      \* if( isC ) return results[k]
      [] h.kind = "allOk" ->
            [w |-> w, t |-> "ret",
             v |-> IF w0.al.done[h.n] THEN Undef ELSE w.al.results[h.n]]
      \* _callback of spread(): return arguments[0] for one non-array argument
      [] h.kind = "spread" ->
            [w |-> w, t |-> "ret",
             v |-> IF Len(args) = 1 /\ ~IsArray(args[1]) THEN args[1] ELSE Undef]
      [] OTHER -> [w |-> w, t |-> "ret", v |-> Undef]
        : w \in {w1}})

\* one instruction
Do(w, i) ==
    CASE i.op = "hold" -> [w EXCEPT !.cx[i.x].held = TRUE]
      [] i.op = "delay" -> CtxDelay(w, i.x)
      [] i.op = "next" -> CtxNext(w, i.x, i.a)
      [] i.op = "reject" -> CtxReject(w, i.x, i.v)
      [] i.op = "inject" -> CtxChain(w, i.x, i.fb, i.eb, FALSE)
      [] i.op = "append" -> PublicChain(w, i.c, i.fb, i.eb, FALSE)
      [] i.op = "trigger" -> PublicResolve(w, i.c)
      [] i.op = "nest" ->
            Resolve(Logged([w EXCEPT !.ch[i.c].paused = FALSE,
                                     !.ch[i.c].error = IF i.m = "err" THEN i.a[1] ELSE @],
                           Ev("nest", i.c, 0, i.x, i.m, i.a)),
                    i.c, IF i.m = "err" THEN <<>> ELSE i.a)
      [] i.op = "invoke" ->
            Logged([w EXCEPT !.calls = Append(@, [kind |-> i.m, ch |-> i.c, cx |-> i.x,
                                                  cx2 |-> i.v, done |-> FALSE])],
                   Ev("invoke", i.c, w.cx[i.v].st, i.v, i.m, i.a))
      [] i.op = "observe" -> Logged(w, Ev("observe", i.c, w.cx[i.x].st, i.x, i.m, i.a))
      [] i.op = "allOk" -> AllOk(w, i.x, i.a)
      [] i.op = "allErr" -> AllErr(w, i.x, i.v)
      [] i.op = "plain" -> [w EXCEPT !.al.results[i.x] = i.v, !.al.complete = @ + 1]
      [] i.op = "bridged" ->
            [w EXCEPT !.br[i.c] = [@ EXCEPT !.set = TRUE, !.args = i.a,
                                            !.success = (i.m = "ok")]]
      [] i.op = "bridgeCh" -> [w EXCEPT !.br[i.c].ch = i.x]
      [] i.op = "register" ->
            [w EXCEPT !.calls = Append(@, [kind |-> "allThen", ch |-> w.al.ch,
                                           cx |-> i.x, cx2 |-> 0, done |-> FALSE])]
      [] OTHER -> w

\* a program, instruction by instruction; whenDone() decides when reached;
\* an exception ends it
Exec(w0, prog) == Only({
    IF Len(prog) = 0 \/ Raised(w)
    THEN w
    ELSE IF Head(prog).op = "whenDone"
    THEN Exec(w, WhenDone(w) \o Tail(prog))
    ELSE Exec(Do(w, Head(prog)), Tail(prog))
        : w \in {w0}})

\* fns[0].apply(...) / fns[1].apply(...): the handler h runs
RunBody(w, c, x, h, args) == Result(Exec(w, Body(w, c, x, h, args)), w, x, h, args)

\* the arguments of the call: a = [obj].concat(args) when noHijack is set
CallArgs(fns, x, args) == IF fns.raw THEN <<CtxRef(x)>> \o args ELSE args

\* console.log('err', e && e.stack || e.message || e): reading e.message
\* throws when e is undefined
LogThrows(e) == IsUndefined(e)

\* the try/catch around the call of the success branch; r is how the body
\* ended; what the catch block throws leaves resolve
SuccessOutcome(r0, c, x, fns) == Only({
    [w |-> [Logged(r.w, Ev("end", c, fns.id, x, r.t, <<r.v>>))
              EXCEPT !.ch[c].error = IF r.t = "throw" THEN r.v ELSE @,
                     !.exc = IF r.t = "throw" /\ LogThrows(r.v) THEN TypeError ELSE @],
     v |-> SuccessValue(IF r.t = "throw" THEN Undef ELSE r.v)]
        : r \in {r0}})

\* the try/catch around the call of the failure branch: delete self._error
FailureOutcome(r0, c, x, fns) == Only({
    [w |-> [Logged(r.w, Ev("end", c, fns.id, x, r.t, <<r.v>>))
              EXCEPT !.ch[c].error = IF r.t = "throw" THEN r.v ELSE Undef],
     v |-> IF r.t = "throw" THEN FailureValue(Undef, r.v) ELSE FailureValue(r.v, Undef)]
        : r \in {r0}})

\* the handler call of the success branch
InvokeSuccess(w, c, x, fns, args) ==
    SuccessOutcome(RunBody(Logged(w, Ev("start", c, fns.id, x, "ok",
                                        CallArgs(fns, x, args))),
                           c, x, fns.fb, CallArgs(fns, x, args)), c, x, fns)

\* mutant: the failure branch does not record the error
NotRecorded(errors, err) == errors

\* self._errors.push(self._error)
Recorded(errors, err) == Append(errors, err)

\* the handler call of the failure branch, after the push on _errors
InvokeFailure(w, c, x, fns) ==
    FailureOutcome(RunBody(Logged([w EXCEPT !.ch[c].errors = Recorded(@, w.ch[c].error)],
                                  Ev("start", c, fns.id, x, "err",
                                     CallArgs(fns, x, <<w.ch[c].error>>))),
                           c, x, fns.eb, CallArgs(fns, x, <<w.ch[c].error>>)), c, x, fns)

\* if( this._pending.length === 0 ) this._resolving = false, closing resolve
Drained(w0, c) == Only({
    IF Raised(w) THEN w
    ELSE IF Len(w.ch[c].pending) = 0 THEN [w EXCEPT !.ch[c].resolving = FALSE] ELSE w
        : w \in {w0}})

\* the inner resolve after the handler call; r is the world and the value
Continue(r0, c, x) == Only({
    IF Raised(r.w)
    THEN r.w
    ELSE IF Interrupted(r.w.ch[c], r.w.cx[x])
    THEN Resolve(r.w, c, <<>>)
    ELSE IF isChainable(r.v)
    THEN Drained(ChainOf([r.w EXCEPT !.ch[c].paused = TRUE], r.v,
                         FnN("nestOk", Undef, c), FnN("nestErr", Undef, c)), c)
    ELSE IF isThenable(r.v)
    THEN Drained([r.w EXCEPT !.ch[c].paused = TRUE,
                             !.calls = Append(@, [kind |-> "then", ch |-> c, cx |-> 0,
                                                  cx2 |-> 0, done |-> FALSE])], c)
    ELSE Drained(Resolve([r.w EXCEPT !.ch[c].value = IF IsUndefined(r.v) THEN @ ELSE r.v],
                         c, ArgsOf(r.v)), c)
        : r \in {r0}})

\* the step taken from the queue: the world after the merge and the shift
Taken(w, c) ==
    Logged([w EXCEPT !.ch[c].pending = ShiftRest(Merged(w.ch[c])),
                     !.ch[c].unPending = <<>>],
           Ev("deq", c, Head(Merged(w.ch[c])).id, 0, Slots(Head(Merged(w.ch[c]))),
              <<w.ch[c].error>>))

\* var obj = {...} with its closure variables skip and nextOnce; a handler
\* is the only code that ever sees it
WithContext(w, c, id) ==
    [w EXCEPT !.cx = Append(@, [ch |-> c, st |-> id, skip |-> FALSE,
                                nextOnce |-> FALSE, held |-> FALSE])]

\* the inner resolve from the shift on; fns is the step taken, x its context
Dispatch(w, c, x, fns, args) ==
    IF ~IsFunction(IF ErrorPending(w.ch[c]) THEN fns.eb ELSE fns.fb)
    THEN Resolve(w, c, args)
    ELSE IF ErrorPending(w.ch[c])
    THEN Continue(InvokeFailure(WithContext(w, c, fns.id), c, x, fns), c, x)
    ELSE Continue(InvokeSuccess(WithContext(w, c, fns.id), c, x, fns, args), c, x)

\* the inner function resolve(val /* arguments */)
Resolve(w0, c, args0) == Only({
    IF Len(w.ch[c].pending) = 0
    THEN [w EXCEPT !.ch[c].resolving = FALSE,
                   !.ch[c].value = IF Len(args0) = 0 THEN @ ELSE Arr(args0)]
    ELSE IF PausedGuard(w.ch[c])
    THEN [w EXCEPT !.ch[c].value = IF Len(args0) = 0 THEN @ ELSE Arr(args0)]
    ELSE Dispatch(Taken([w EXCEPT !.ch[c].value = IF Len(args0) = 0 THEN @ ELSE Arr(args0)],
                        c),
                  c, Len(w.cx) + 1, Head(Merged(w.ch[c])), SelectArgs(w.ch[c], args0))
        : w \in {w0}})

(***************************************************************************)
(* Actions: the calls the event loop and the program's top level make.  An *)
(* exception that reaches the top level or the event loop is left to the   *)
(* host; the objects stay as the throwing call left them.                  *)
(***************************************************************************)
Apply(w0) == \E w \in {w0} :
    /\ chains' = w.ch
    /\ ctxs' = w.cx
    /\ log' = w.log
    /\ ticks' = w.ticks
    /\ nsteps' = w.ns
    /\ gImmediate' = w.gi
    /\ calls' = w.calls
    /\ allst' = w.al
    /\ bridges' = w.br

NoAll == [len |-> 0, complete |-> 0, results |-> <<>>, firstErr |-> Undef,
          errResults |-> <<>>, hasErr |-> FALSE, ctx |-> 0, ch |-> 0,
          done |-> <<>>, vals |-> <<>>]

Init ==
    /\ chains = <<>>
    /\ ctxs = <<>>
    /\ log = <<>>
    /\ ticks = <<>>
    /\ nsteps = 0
    /\ gImmediate = FALSE
    /\ calls = <<>>
    /\ allst = NoAll
    /\ bridges = <<>>

\* new Chain(value, fallback, errback): start, now, chain
Construct(w, init, fb, eb) ==
    PublicChain(Logged([w EXCEPT !.ch = Append(@, NewChain(init, w.gi)),
                                 !.log = Append(@, <<>>)],
                       Ev("new", Len(w.ch) + 1, 0, 0, init.t, <<>>)),
                Len(w.ch) + 1, fb, eb, FALSE)

\* a foreign thenable entry that has called a listener calls one again
Again(k) ==
    /\ k \in 1..Len(calls)
    /\ calls[k].kind = "allThen"
    /\ calls[k].done
    /\ ~\E j \in 1..Len(log[allst.ch]) :
          log[allst.ch][j].e = "again" /\ log[allst.ch][j].st = calls[k].cx

SettleAgain(k, l) ==
    /\ Again(k)
    /\ Apply(Exec(Logged(World, Ev("again", allst.ch, calls[k].cx, 0, "ok", l)),
                  AllOkBody(World, calls[k].cx, l)))

SettleErrAgain(k, err) ==
    /\ Again(k)
    /\ Apply(Exec(Logged(World, Ev("again", allst.ch, calls[k].cx, 0, "err", <<err>>)),
                  AllErrBody(World, calls[k].cx, err)))

\* the closure variables of all(values), ctx being the context it resumes
AllVars(w, values, x) ==
    [w EXCEPT !.al = [len |-> Len(values), complete |-> 0,
                      results |-> [i \in 1..Len(values) |-> Undef], firstErr |-> Undef,
                      errResults |-> [i \in 1..Len(values) |-> Undef], hasErr |-> FALSE,
                      ctx |-> x, ch |-> Len(w.ch),
                      done |-> [i \in 1..Len(values) |-> FALSE], vals |-> values]]

\* all(values)
All(w, values) ==
    IF Len(values) = 0
    THEN Construct(w, Obj(TRUE, FALSE, FALSE, Undef), NoFn, NoFn)
    ELSE Exec(AllVars(Construct(w, Obj(TRUE, FALSE, FALSE, Undef), Fn("delay", Undef), NoFn),
                      values, Len(w.cx) + 1),
              AllProgram(values))

\* the number of chain entries of values
ChainEntries(values) == Cardinality({i \in 1..Len(values) : isChainable(values[i])})

DoAll(values) ==
    /\ allst.ch = 0
    /\ nsteps + ChainEntries(values) < MaxSteps
    /\ \A i \in 1..Len(values) :
          isChainable(values[i]) =>
              values[i].s \in 1..Len(chains) /\ chains[values[i].s].ref
    /\ Apply(All(World, values))

\* a foreign thenable entry calls the success listener it was given
Settle(k, l) ==
    /\ k \in 1..Len(calls)
    /\ calls[k].kind = "allThen"
    /\ ~calls[k].done
    /\ Apply(Exec([World EXCEPT !.calls[k].done = TRUE], AllOkBody(World, calls[k].cx, l)))

\* a foreign thenable entry calls the failure listener it was given
SettleErr(k, err) ==
    /\ k \in 1..Len(calls)
    /\ calls[k].kind = "allThen"
    /\ ~calls[k].done
    /\ Apply(Exec([World EXCEPT !.calls[k].done = TRUE], AllErrBody(World, calls[k].cx, err)))

\* var c = new Chain(...): when the constructor throws, nothing is assigned
Assigned(w0) == Only({
    IF Raised(w) THEN [w EXCEPT !.ch[Len(w.ch)].ref = FALSE] ELSE w
        : w \in {w0}})

New(init, fb, eb) ==
    /\ nsteps < MaxSteps
    /\ Apply(Assigned(Construct(World, init, fb, eb)))

\* chain.chain(fallback, errback), chain.fail(errback), chain.fin(f) at top
\* level; a chainable fallback makes two steps, its listeners' and the chain's
DoChain(c, fb, eb) ==
    /\ c \in 1..Len(chains)
    /\ chains[c].ref
    /\ nsteps + (IF IsChain(fb) THEN 1 ELSE 0) < MaxSteps
    /\ IsChain(fb) \/ IsFunction(fb) \/ IsFunction(eb)
    /\ Apply(PublicChain(Logged(World, Ev("call", c, 0, 0, "chain", <<>>)), c, fb, eb, FALSE))

\* chain.chain(other, errback) at top level, other a Chain the caller holds
DoBridge(c, d, eb) ==
    /\ d \in 1..Len(chains)
    /\ chains[d].ref
    /\ DoChain(c, ChainRef(d), eb)

\* the event loop runs the oldest nextTick callback: resolve.call(self)
Tick ==
    /\ Len(ticks) > 0
    /\ Apply(Resolve(Logged([World EXCEPT !.ticks = Tail(@)],
                            Ev("tick", Head(ticks), 0, 0, "", <<>>)), Head(ticks), <<>>))

\* calls made so far from the event loop on kept contexts, and their bound
AsyncCalls ==
    Cardinality(UNION {{<<c, i>> : i \in {k \in 1..Len(log[c]) : log[c][k].e = "async"}} :
                          c \in 1..Len(log)})
MaxAsync == MaxSteps - 1

\* code that kept a context calls its resume/next from the event loop
AsyncNext(x, args) ==
    /\ x \in 1..Len(ctxs)
    /\ ctxs[x].held
    /\ AsyncCalls < MaxAsync
    /\ Apply(CtxNext(Logged(World, Ev("async", ctxs[x].ch, ctxs[x].st, x, "next", args)),
                     x, args))

\* the code that kept the context of a suspended handler resumes it (once)
Resume(x, args) ==
    /\ x \in 1..Len(ctxs)
    /\ ctxs[x].held
    /\ ~ctxs[x].nextOnce
    /\ Apply(CtxNext(Logged(World, Ev("async", ctxs[x].ch, ctxs[x].st, x, "next", args)),
                     x, args))

\* code that kept a context calls its reject from the event loop
AsyncReject(x, reason) ==
    /\ x \in 1..Len(ctxs)
    /\ ctxs[x].held
    /\ AsyncCalls < MaxAsync
    /\ Apply(CtxReject(Logged(World, Ev("async", ctxs[x].ch, ctxs[x].st, x, "reject",
                                        <<reason>>)), x, reason))

\* module-level aCall(call, context, ...params) / nCall(...):
\* now(undefined, function() { this.aCall.apply(this, args) })
ModuleCall(kind, params) == New(Obj(TRUE, FALSE, FALSE, Undef), Fn(kind, params), NoFn)

\* module-level fail(err): var ch = start(); ch._error = err || new Error()
Failed(w, err) == [w EXCEPT !.ch[Len(w.ch)].error = IF Truthy(err) THEN err ELSE NewError]

Fail(err) ==
    /\ nsteps < MaxSteps
    /\ Apply(Failed(Construct(World, Plain(Undef), NoFn, NoFn), err))

\* chain.then(fallback, errback); fb, eb say whether an observer is given.
\* The sibling is start(NOW, function() { ctx = this.pause() }), whose only
\* handler runs inside the constructor, so ctx is the context created there.
Then(w, c, fb, eb) ==
    PublicChain(Construct(w, Sentinel("NOW"), Fn("delay", Undef), NoFn), c,
                FnN("thenOk", fb, Len(w.cx) + 1), FnN("thenErr", eb, Len(w.cx) + 1), FALSE)

DoThen(c, fb, eb) ==
    /\ c \in 1..Len(chains)
    /\ chains[c].ref
    /\ nsteps + 1 < MaxSteps
    /\ Apply(Then(Logged(World, Ev("call", c, 0, 0, "then", <<>>)), c, fb, eb))

\* chain.spread(fallback, errback): this.chain(_callback).chain(fallback, errback)
Spread(w, c, fb, eb) ==
    Exec(w, <<IAppend(c, Fn("spread", Undef), NoFn), IAppend(c, fb, eb)>>)

DoSpread(c, fb, eb) ==
    /\ c \in 1..Len(chains)
    /\ chains[c].ref
    /\ nsteps + 1 < MaxSteps
    /\ Apply(Spread(Logged(World, Ev("call", c, nsteps + 1, 0, "spread", <<>>)), c, fb, eb))

\* the callback an adapter hands to the external function, called with l
CallbackBody(call, l) ==
    IF call.kind = "aCall"
    THEN <<INext(call.cx, l)>>
    ELSE IF Len(l) > 0 /\ Truthy(l[1])
    THEN <<IReject(call.cx, l[1])>>
    ELSE <<INext(call.cx2, IF Len(l) > 0 THEN Tail(l) ELSE l)>>

\* the external function calls the callback it was given, with arguments l:
\* aCall's callback is obj.resume(l...); nCall's callback rejects obj with a
\* truthy l[1] and otherwise resumes self with the rest
Callback(k, l) ==
    /\ k \in 1..Len(calls)
    /\ calls[k].kind \in {"aCall", "nCall"}
    /\ ~calls[k].done
    /\ Apply(Exec(Logged([World EXCEPT !.calls[k].done = TRUE],
                          Ev("callback", calls[k].ch, ctxs[calls[k].cx2].st, calls[k].cx,
                             calls[k].kind, l)),
                   CallbackBody(calls[k], l)))

\* a foreign thenable returned by a handler calls the listener it was given:
\* self._paused = false; [self._error = err;] resolve.apply(self, ...)
ThenableSettles(k, m, l) ==
    /\ k \in 1..Len(calls)
    /\ calls[k].kind = "then"
    /\ ~calls[k].done
    /\ Apply(Exec([World EXCEPT !.calls[k].done = TRUE], <<INest(calls[k].ch, 0, m, l)>>))

\* chain.resolve() at top level
DoResolve(c) ==
    /\ c \in 1..Len(chains)
    /\ chains[c].ref
    /\ Len(chains[c].pending) > 0
    /\ Apply(PublicResolve(World, c))

\* setImmediate(immediate)
SetImmediate(b) ==
    /\ gImmediate # b
    /\ gImmediate' = b
    /\ UNCHANGED <<chains, ctxs, log, ticks, nsteps, calls, allst, bridges>>

(***************************************************************************)
(* Inputs.                                                                 *)
(***************************************************************************)

Deferred == Plain(Sc(1))
Immediate == Obj(TRUE, FALSE, FALSE, Sc(1))

OnSuccess(b) == [fb |-> b, eb |-> NoFn]
OnFailure(b) == [fb |-> NoFn, eb |-> b]
Both(b, e) == [fb |-> b, eb |-> e]


(***************************************************************************)
(* Spec: one chain, built deferred or immediate, steps appended from the   *)
(* top level and from inside handlers, ticks.                              *)
(***************************************************************************)
OrderSteps ==
    {OnSuccess(Fn("ret", Sc(3))), OnSuccess(Fn("throw", Sc(7))),
     OnFailure(Fn("ret", Sc(3))), OnSuccess(FnN("inject", Sc(4), 2)),
     OnSuccess(Fn("append", Sc(5))), OnSuccess(Fn("next", Arr(<<Sc(6)>>))),
     OnSuccess(Fn("retThis", Undef)), OnSuccess(Fn("throw", Undef))}

Next ==
    \/ \E i \in {Deferred, Immediate}, s \in OrderSteps \cup {OnSuccess(NoFn)} :
          Len(chains) = 0 /\ New(i, s.fb, s.eb)
    \/ \E s \in OrderSteps : DoChain(1, s.fb, s.eb)
    \/ Tick

Spec == Init /\ [][Next]_vars

(***************************************************************************)
(* SpecMix: two chains; handlers return, throw undefined, suspend, return   *)
(* the other chain, their own context or a kept one; a chain is given to   *)
(* chain in the place of a handler; kept contexts are resumed and rejected *)
(* from the event loop; ticks; public resolve calls.                       *)
(***************************************************************************)
MixSteps ==
    {Both(Fn("ret", Sc(3)), Fn("ret", Sc(4))), OnSuccess(Fn("delay", Undef)),
     OnSuccess(Fn("retInject", Sc(5))), OnSuccess(Fn("throw", Undef))}

NextMix ==
    \/ Len(chains) = 0 /\ New(Deferred, NoFn, NoFn)
    \/ Len(chains) = 1 /\ New(Immediate, NoFn, NoFn)
    \/ \E c \in 1..Len(chains), s \in MixSteps : DoChain(c, s.fb, s.eb)
    \/ Len(chains) > 1 /\ DoChain(1, FnN("retChain", Undef, 2), NoFn)
    \/ Len(chains) > 1 /\ DoBridge(1, 2, NoFn)
    \/ \E x \in 1..Len(ctxs) : ctxs[x].held /\ DoChain(2, FnN("retCtx", Undef, x), NoFn)
    \/ Tick
    \/ \E c \in 1..Len(chains) : DoResolve(c)
    \/ \E x \in 1..Len(ctxs) : AsyncNext(x, <<Sc(6)>>)
    \/ \E x \in 1..Len(ctxs) : AsyncReject(x, Sc(8))

SpecMix == Init /\ [][NextMix]_vars

(***************************************************************************)
(* SpecErr: one chain, built with a value or already failed, whose         *)
(* handlers return, throw or reject.                                       *)
(***************************************************************************)
ErrSteps ==
    {OnSuccess(Fn("ret", Sc(3))), OnSuccess(Fn("throw", Sc(7))),
     OnSuccess(Fn("throw", Undef)),
     OnSuccess(Fn("reject", Sc(8))), OnFailure(Fn("throw", Sc(9))),
     Both(Fn("ret", Sc(3)), Fn("ret", Sc(4)))}
    \cup {OnFailure(Fn("ret", v)) : v \in {Undef, Arr(<<Sc(4), Sc(5)>>)}}

NextErr ==
    \/ \E i \in {Deferred, Immediate}, s \in ErrSteps :
          Len(chains) = 0 /\ New(i, s.fb, s.eb)
    \/ Len(chains) = 0 /\ Fail(Sc(6))
    \/ \E s \in ErrSteps : DoChain(1, s.fb, s.eb)
    \/ Tick

SpecErr == Init /\ [][NextErr]_vars

(***************************************************************************)
(* SpecValue: one chain whose success handlers return undefined, a         *)
(* scalar, an empty array or an array.                                     *)
(***************************************************************************)
ValueSteps ==
    {OnSuccess(Fn("ret", v)) : v \in {Undef, Sc(3), Arr(<<>>), Arr(<<Sc(4), Sc(5)>>)}}

NextValue ==
    \/ \E i \in {Deferred, Immediate}, s \in ValueSteps :
          Len(chains) = 0 /\ New(i, s.fb, s.eb)
    \/ \E s \in ValueSteps : DoChain(1, s.fb, s.eb)
    \/ Tick

SpecValue == Init /\ [][NextValue]_vars

(***************************************************************************)
(* SpecSuspend: one chain, deferred or immediate; handlers suspend and     *)
(* keep their context, which is resumed once or twice from the event loop, *)
(* with or without arguments; steps are appended from the top level        *)
(* (also while the chain is suspended) and from inside a running handler.  *)
(***************************************************************************)
SuspendSteps ==
    {OnSuccess(Fn("delay", Undef)), OnSuccess(Fn("ret", Sc(3))),
     OnSuccess(Fn("append", Sc(5)))}

ResumeArgs == {<<>>, <<Sc(1), Sc(2)>>}

NextSuspend ==
    \/ \E i \in {Deferred, Immediate}, s \in SuspendSteps :
          Len(chains) = 0 /\ New(i, s.fb, s.eb)
    \/ \E s \in SuspendSteps : DoChain(1, s.fb, s.eb)
    \/ Tick
    \/ \E x \in 1..Len(ctxs), a \in ResumeArgs : AsyncNext(x, a)

SpecSuspend == Init /\ [][NextSuspend]_vars

(***************************************************************************)
(* SpecAdapter: chains made by the module-level aCall and nCall; steps are *)
(* appended to them (or never), ticks run, the external function calls its *)
(* callback with or without an error, and the process-wide default of the  *)
(* immediate flag is switched.                                             *)
(***************************************************************************)
AdapterSteps ==
    {OnSuccess(Fn("ret", Sc(3))), OnFailure(Fn("ret", Sc(4))),
     Both(Fn("ret", Undef), Fn("ret", Sc(4)))}

AdapterParams == {Arr(<<>>), Arr(<<Sc(2)>>)}

CallbackArgs == {<<>>, <<Undef, Sc(1)>>, <<Sc(8)>>}

NextAdapter ==
    \/ \E kind \in {"aCall", "nCall"}, p \in AdapterParams : ModuleCall(kind, p)
    \/ \E c \in 1..Len(chains), s \in AdapterSteps : DoChain(c, s.fb, s.eb)
    \/ Tick
    \/ \E k \in 1..Len(calls), l \in CallbackArgs : Callback(k, l)
    \/ \E b \in BOOLEAN : SetImmediate(b)

SpecAdapter == Init /\ [][NextAdapter]_vars

(***************************************************************************)
(* SpecThen: one chain built with a value (deferred or immediate) or       *)
(* already failed; then() is called on it and a step is appended before or *)
(* after; ticks run.                                                       *)
(***************************************************************************)
ThenSteps ==
    {OnSuccess(Fn("ret", Sc(3))), OnFailure(Fn("ret", Sc(4))),
     Both(Fn("ret", Sc(3)), Fn("ret", Sc(4)))}

NextThen ==
    \/ \E i \in {Deferred, Immediate} : Len(chains) = 0 /\ New(i, NoFn, NoFn)
    \/ Len(chains) = 0 /\ Fail(Sc(7))
    \/ \E fb \in {Undef, Sc(1)} : DoThen(1, fb, Sc(1))
    \/ \E s \in ThenSteps : DoChain(1, s.fb, s.eb)
    \/ Tick
    \/ \E b \in BOOLEAN : SetImmediate(b)

SpecThen == Init /\ [][NextThen]_vars

(***************************************************************************)
(* SpecAll: up to two entry chains (carrying a value, or suspended and     *)
(* resumed later), one call of all() on a list of plain values, chains and *)
(* foreign thenables, which settle in any order; a step appended to the    *)
(* returned chain.                                                         *)
(***************************************************************************)
AllValues ==
    {<<Sc(1)>>, <<Sc(1), ChainRef(1)>>, <<ChainRef(1), Sc(2)>>,
     <<ChainRef(1), ChainRef(2)>>, <<Thenable(1), ChainRef(1)>>,
     <<Thenable(1), Thenable(2)>>, <<Thenable(1), Sc(2), Thenable(2)>>}

DeliveredArgs == {<<Sc(5)>>, <<Sc(5), Sc(6)>>}

NextAll ==
    \/ \E i \in {Deferred, Immediate} :
          allst.ch = 0 /\ Len(chains) < MaxSteps - 1 /\ New(i, NoFn, NoFn)
    \/ /\ allst.ch = 0 /\ Len(chains) < MaxSteps - 1
       /\ New(Immediate, Fn("delay", Undef), NoFn)
    \/ \E v \in AllValues : DoAll(v)
    \/ \E k \in 1..Len(calls), l \in DeliveredArgs : Settle(k, l)
    \/ \E k \in 1..Len(calls) : SettleErr(k, Sc(8))
    \/ \E x \in 1..Len(ctxs), l \in DeliveredArgs : x # allst.ctx /\ AsyncNext(x, l)
    \/ allst.ch # 0 /\ DoChain(allst.ch, Fn("ret", Sc(3)), NoFn)
    \/ Tick

SpecAll == Init /\ [][NextAll]_vars

(***************************************************************************)
(* SpecAllErr: all() over entries some of which fail: a chain that was     *)
(* built already failed, a chain carrying a value, foreign thenables that  *)
(* settle in success or in failure, in any order; handlers appended to the *)
(* returned chain.                                                         *)
(***************************************************************************)
AllErrValues ==
    {<<ChainRef(1), ChainRef(2)>>, <<Thenable(1), ChainRef(1)>>,
     <<Thenable(1), Thenable(2)>>, <<Sc(1), Thenable(1)>>}

AllErrSteps == {Both(Fn("ret", Sc(3)), Fn("ret", Sc(4))), OnFailure(Fn("ret", Sc(4)))}

NextAllErr ==
    \/ Len(chains) = 0 /\ Fail(Sc(7))
    \/ allst.ch = 0 /\ Len(chains) = 1 /\ New(Immediate, NoFn, NoFn)
    \/ \E v \in AllErrValues : DoAll(v)
    \/ \E k \in 1..Len(calls) : Settle(k, <<Sc(5)>>)
    \/ \E k \in 1..Len(calls), e \in {Sc(8), Sc(9)} : SettleErr(k, e)
    \/ \E s \in AllErrSteps : allst.ch # 0 /\ DoChain(allst.ch, s.fb, s.eb)
    \/ Tick

SpecAllErr == Init /\ [][NextAllErr]_vars

(***************************************************************************)
(* SpecSpread: one chain, deferred or immediate, built with a scalar, an   *)
(* array of scalars, an array holding one array (empty or not) or          *)
(* undefined; spread(handler) is called on it, before or after a step      *)
(* returning one of these values.                                          *)
(***************************************************************************)
SpreadValues ==
    {Sc(5), Arr(<<Sc(1), Sc(2), Sc(3)>>), Arr(<<Arr(<<Sc(1), Sc(2)>>)>>),
     Arr(<<Arr(<<>>)>>), Undef}

NextSpread ==
    \/ \E v \in SpreadValues : Len(chains) = 0 /\ New(Plain(v), NoFn, NoFn)
    \/ \E v \in SpreadValues : Len(chains) = 0 /\ New(Obj(TRUE, FALSE, FALSE, v), NoFn, NoFn)
    \/ \E v \in SpreadValues \ {Undef} : DoChain(1, Fn("ret", v), NoFn)
    \/ DoSpread(1, Fn("ret", Sc(3)), NoFn)
    \/ Tick

SpecSpread == Init /\ [][NextSpread]_vars

(***************************************************************************)
(* SpecInject: one chain whose handlers call this.aCall or this.nCall,     *)
(* once or twice; other steps are appended; the external functions call    *)
(* their callbacks, with or without an error.                              *)
(***************************************************************************)
InjectCallbackArgs == {<<Sc(1)>>, <<Undef, Sc(1)>>}

NextInject ==
    \/ \E i \in {Deferred, Immediate} : Len(chains) = 0 /\ New(i, NoFn, NoFn)
    \/ \E kind \in {"aCall", "nCall"}, n \in 1..2 :
          DoChain(1, FnN(kind, Arr(<<>>), n), NoFn)
    \/ \E s \in AdapterSteps : DoChain(1, s.fb, s.eb)
    \/ Tick
    \/ \E k \in 1..Len(calls), l \in InjectCallbackArgs : Callback(k, l)

SpecInject == Init /\ [][NextInject]_vars

(***************************************************************************)
(* SpecLive: two chains, deferred or immediate, whose handlers return,     *)
(* throw (a value or undefined), suspend, return a foreign thenable or     *)
(* return the other chain.                                                 *)
(* The event loop runs every scheduled tick, the holder of a suspended     *)
(* context resumes it, and a returned thenable settles: these three are    *)
(* weakly fair.                                                            *)
(***************************************************************************)
LiveSteps ==
    {OnSuccess(Fn("ret", Sc(3))), OnSuccess(Fn("delay", Undef)),
     OnSuccess(Fn("throw", Sc(7))), OnFailure(Fn("ret", Sc(4))),
     OnSuccess(FnN("retThenable", Undef, 1)), OnSuccess(Fn("throw", Undef))}

Resumed == \E x \in 1..Len(ctxs) : Resume(x, <<Sc(6)>>)

Settled ==
    \E k \in 1..Len(calls) :
        ThenableSettles(k, "ok", <<Sc(5)>>) \/ ThenableSettles(k, "err", <<Sc(8)>>)

NextLive ==
    \/ \E i \in {Deferred, Immediate}, s \in LiveSteps :
          Len(chains) = 0 /\ New(i, s.fb, s.eb)
    \/ Len(chains) = 1 /\ New(Deferred, NoFn, NoFn)
    \/ \E c \in 1..Len(chains), s \in LiveSteps : DoChain(c, s.fb, s.eb)
    \/ Len(chains) > 1 /\ DoChain(1, FnN("retChain", Undef, 2), NoFn)
    \/ Tick
    \/ Resumed
    \/ Settled

SpecLive ==
    Init /\ [][NextLive]_vars /\ WF_vars(Tick) /\ WF_vars(Resumed) /\ WF_vars(Settled)

(***************************************************************************)
(* SpecReentry: one chain, deferred or immediate, whose handlers call      *)
(* chain or resolve on the chain, or next or reject on their own context,  *)
(* before they return.                                                     *)
(***************************************************************************)
ReentrySteps ==
    {OnSuccess(Fn("ret", Sc(3))), OnSuccess(Fn("append", Sc(5))),
     OnSuccess(Fn("resolve", Undef)), OnSuccess(Fn("next", Arr(<<Sc(6)>>))),
     OnSuccess(Fn("reject", Sc(8))), OnFailure(Fn("ret", Sc(4)))}

NextReentry ==
    \/ \E i \in {Deferred, Immediate}, s \in ReentrySteps :
          Len(chains) = 0 /\ New(i, s.fb, s.eb)
    \/ \E s \in ReentrySteps : DoChain(1, s.fb, s.eb)
    \/ Tick

SpecReentry == Init /\ [][NextReentry]_vars

(***************************************************************************)
(* SpecStale: one chain, deferred or immediate; handlers hand their        *)
(* context to other code and return a value, or suspend, or just return;   *)
(* the kept contexts are resumed and rejected from the event loop, before  *)
(* or after they were resumed.                                             *)
(***************************************************************************)
StaleSteps ==
    {OnSuccess(Fn("keep", Sc(3))), OnSuccess(Fn("delay", Undef)),
     OnSuccess(Fn("ret", Sc(5))), OnFailure(Fn("ret", Sc(4)))}

NextStale ==
    \/ \E i \in {Deferred, Immediate}, s \in StaleSteps :
          Len(chains) = 0 /\ New(i, s.fb, s.eb)
    \/ \E s \in StaleSteps : DoChain(1, s.fb, s.eb)
    \/ Tick
    \/ \E x \in 1..Len(ctxs), a \in ResumeArgs : AsyncNext(x, a)
    \/ \E x \in 1..Len(ctxs) : AsyncReject(x, Sc(8))

SpecStale == Init /\ [][NextStale]_vars

(***************************************************************************)
(* SpecMode: one chain built with a plain value, NOW or TICK while the     *)
(* process-wide default is either way; steps are appended, ticks run, the  *)
(* default is switched, resolve is called.                                 *)
(***************************************************************************)
ModeInits == {Plain(Sc(1)), Sentinel("NOW"), Sentinel("TICK")}

NextMode ==
    \/ \E i \in ModeInits : Len(chains) = 0 /\ New(i, Fn("ret", Sc(3)), NoFn)
    \/ \E i \in ModeInits : Len(chains) = 0 /\ New(i, NoFn, NoFn)
    \/ DoChain(1, Fn("ret", Sc(3)), NoFn)
    \/ DoChain(1, Fn("delay", Undef), NoFn)
    \/ Tick
    \/ DoResolve(1)
    \/ \E x \in 1..Len(ctxs) : Resume(x, <<>>)
    \/ \E b \in BOOLEAN : SetImmediate(b)

SpecMode == Init /\ [][NextMode]_vars

(***************************************************************************)
(* SpecOnce: all() over plain values, chains (carrying a value, immediate  *)
(* or deferred, or built already failed) and foreign thenables             *)
(* that call their listeners in success or failure, in any order and more  *)
(* than once; handlers appended to the returned chain.                     *)
(***************************************************************************)
OnceValues ==
    {<<Thenable(1), Thenable(2)>>, <<Thenable(1), ChainRef(1)>>,
     <<Sc(1), Thenable(1)>>, <<Sc(1), ChainRef(1)>>, <<ChainRef(1), ChainRef(2)>>}

NextOnce ==
    \/ Len(chains) = 0 /\ New(Immediate, NoFn, NoFn)
    \/ Len(chains) = 0 /\ Fail(Sc(7))
    \/ allst.ch = 0 /\ Len(chains) = 1 /\ New(Deferred, NoFn, NoFn)
    \/ \E v \in OnceValues : DoAll(v)
    \/ \E k \in 1..Len(calls) : Settle(k, <<Sc(5)>>)
    \/ \E k \in 1..Len(calls) : SettleErr(k, Sc(8))
    \/ \E k \in 1..Len(calls) : SettleAgain(k, <<Sc(6)>>)
    \/ \E k \in 1..Len(calls) : SettleErrAgain(k, Sc(9))
    \/ allst.ch # 0 /\ DoChain(allst.ch, Fn("ret", Sc(3)), Fn("ret", Sc(4)))
    \/ Tick

SpecOnce == Init /\ [][NextOnce]_vars

(***************************************************************************)
(* Reading the history of chain c.                                         *)
(***************************************************************************)
Chains == 1..Len(chains)
LogIdx(c) == 1..Len(log[c])
Is(c, i, e) == log[c][i].e = e
StartIdx(c) == {i \in LogIdx(c) : Is(c, i, "start")}
DeqIdx(c) == {i \in LogIdx(c) : Is(c, i, "deq")}
AppIdx(c) == {i \in LogIdx(c) : Is(c, i, "app")}
\* step st was dequeued before position j
DequeuedBefore(c, st, j) == \E i \in DeqIdx(c) : i < j /\ log[c][i].st = st
\* the ids in the main queue when the step of event i was pushed
Snapshot(c, i) == {log[c][i].a[k].s : k \in 1..Len(log[c][i].a)}

(***************************************************************************)
(* C1  Handlers start in queue order.  A step pushed on the main queue     *)
(* never has a handler invoked before every step pushed earlier has been   *)
(* dequeued; a step injected through a context is dequeued before every    *)
(* step that was in the main queue when it was injected, and injected      *)
(* steps waiting together in the priority queue leave in injection order.  *)
(***************************************************************************)
C1_MainOrder ==
    \A c \in Chains : \A i \in AppIdx(c), j \in AppIdx(c), k \in StartIdx(c) :
        (i < j /\ log[c][j].m = "main" /\ log[c][k].st = log[c][j].st)
            => DequeuedBefore(c, log[c][i].st, k)

C1_InjectedFirst ==
    \A c \in Chains : \A j \in AppIdx(c), k \in DeqIdx(c) :
        (log[c][j].m = "prio" /\ log[c][k].st \in Snapshot(c, j) /\ k > j)
            => DequeuedBefore(c, log[c][j].st, k)

C1_InjectionOrder ==
    \A c \in Chains : \A i \in AppIdx(c), j \in AppIdx(c), k \in DeqIdx(c) :
        (i < j /\ log[c][i].m = "prio" /\ log[c][j].m = "prio"
           /\ ~(\E d \in DeqIdx(c) : i < d /\ d < j)
           /\ log[c][k].st = log[c][j].st)
            => DequeuedBefore(c, log[c][i].st, k)

C1_QueueOrder == C1_MainOrder /\ C1_InjectedFirst /\ C1_InjectionOrder

\* two steps injected together have both run, and a step that was queued
\* when they were injected has run after them
C1_Witness ==
    \E c \in Chains : \E i \in AppIdx(c), j \in AppIdx(c), k \in StartIdx(c) :
        /\ i < j /\ log[c][i].m = "prio" /\ log[c][j].m = "prio"
        /\ log[c][k].st \in Snapshot(c, j)
        /\ DequeuedBefore(c, log[c][i].st, k) /\ DequeuedBefore(c, log[c][j].st, k)

(***************************************************************************)
(* C2  Every step has at most one handler invocation in total: it is       *)
(* dequeued at most once and its success or its failure handler is         *)
(* invoked at most once, never both.                                       *)
(***************************************************************************)
C2_AtMostOnce ==
    \A c \in Chains :
        /\ \A i \in StartIdx(c), j \in StartIdx(c) : log[c][i].st = log[c][j].st => i = j
        /\ \A i \in DeqIdx(c), j \in DeqIdx(c) : log[c][i].st = log[c][j].st => i = j

\* a failure handler and a success handler have run, a nested chain has
\* settled into its parent and a kept context has been resumed
C2_Witness ==
    /\ \E c \in Chains : \E i \in StartIdx(c) : log[c][i].m = "err"
    /\ \E c \in Chains : \E i \in StartIdx(c) : log[c][i].m = "ok"
    /\ \E c \in Chains : \E i \in LogIdx(c) : Is(c, i, "nest")
    /\ \E c \in Chains : \E i \in LogIdx(c) : Is(c, i, "resume") /\ log[c][i].m = "hon"

(***************************************************************************)
(* C3  Error propagation.  While an error is pending no success handler    *)
(* is invoked; a dequeued step without a failure handler is dropped and    *)
(* never runs; a dequeued step with a failure handler is invoked with the  *)
(* pending error.  After a failure handler returns, the next handler       *)
(* invoked is a success handler and receives the returned value; after it  *)
(* throws, the thrown value is the error pending at the next dequeue.      *)
(***************************************************************************)
\* the error pending when the step of dequeue event i was taken
PendingAt(c, i) == log[c][i].a[1]
\* the first event of kind e after position i, 0 if none
NextOf(c, i, e) ==
    IF \E j \in LogIdx(c) : j > i /\ Is(c, j, e)
    THEN CHOOSE j \in LogIdx(c) : j > i /\ Is(c, j, e)
                                   /\ \A k \in LogIdx(c) : (k > i /\ k < j) => ~Is(c, k, e)
    ELSE 0

C3_NoSuccessWhilePending ==
    \A c \in Chains : \A i \in DeqIdx(c) :
        ~IsUndefined(PendingAt(c, i)) =>
            /\ \A k \in StartIdx(c) : log[c][k].st = log[c][i].st => log[c][k].m = "err"
            /\ log[c][i].m = "f" => \A k \in StartIdx(c) : log[c][k].st # log[c][i].st
            /\ log[c][i].m # "f" =>
                  /\ i + 1 \in StartIdx(c)
                  /\ log[c][i + 1].st = log[c][i].st
                  /\ log[c][i + 1].a = <<PendingAt(c, i)>>

C3_AfterFailureHandler ==
    \A c \in Chains : \A i \in StartIdx(c), j \in LogIdx(c) :
        (log[c][i].m = "err" /\ Is(c, j, "end") /\ log[c][j].st = log[c][i].st) =>
            /\ (log[c][j].m = "ret" /\ NextOf(c, j, "start") # 0) =>
                  /\ log[c][NextOf(c, j, "start")].m = "ok"
                  /\ log[c][NextOf(c, j, "start")].a = ArgsOf(log[c][j].a[1])
            /\ (log[c][j].m = "throw" /\ NextOf(c, j, "deq") # 0) =>
                  PendingAt(c, NextOf(c, j, "deq")) = log[c][j].a[1]

C3_ErrorPropagation == C3_NoSuccessWhilePending /\ C3_AfterFailureHandler

\* a success handler threw, a failure handler was invoked with the thrown
\* value and returned an array, and a success handler ran after it
C3_Witness ==
    \E c \in Chains : \E i \in DeqIdx(c), j \in LogIdx(c) :
        /\ PendingAt(c, i) = Sc(7) /\ log[c][i].m = "e"
        /\ j > i /\ Is(c, j, "end") /\ log[c][j].m = "ret" /\ log[c][j].st = log[c][i].st
        /\ NextOf(c, j, "start") # 0
        /\ log[c][j].a[1] = Arr(<<Sc(4), Sc(5)>>)

(***************************************************************************)
(* C4  The value handed on by a success handler that returns.  After a     *)
(* success handler returned undefined the next success handler is called   *)
(* with the arguments the returning handler received; after it returned    *)
(* another value, with that value (an array expanded, an empty array       *)
(* giving no arguments).                                                   *)
(***************************************************************************)
\* the start event of the handler whose end event is j
StartOf(c, j) == CHOOSE i \in StartIdx(c) : i < j /\ log[c][i].st = log[c][j].st

C4_ReturnCarried ==
    \A c \in Chains : \A j \in LogIdx(c) :
        (Is(c, j, "end") /\ log[c][j].m = "ret" /\ log[c][StartOf(c, j)].m = "ok"
           /\ NextOf(c, j, "start") # 0) =>
            log[c][NextOf(c, j, "start")].a =
                IF IsUndefined(log[c][j].a[1]) THEN log[c][StartOf(c, j)].a
                ELSE ArgsOf(log[c][j].a[1])

(***************************************************************************)
(* C5  resume called twice on one context of a handler that suspended.     *)
(* Only the first call is honoured and the second call leaves every field  *)
(* of the chain (value, paused flag, both queues) as it was; the handler    *)
(* that starts next starts once.  As stated, it receives the arguments of   *)
(* the first call; in the code it receives them when there is at least     *)
(* one, and the value the chain carries when the first call has none.      *)
(***************************************************************************)
ResumeIdx(c) == {i \in LogIdx(c) : Is(c, i, "resume")}
\* resume events i < j of the same context
SameContext(c, i, j) ==
    Is(c, i, "resume") /\ Is(c, j, "resume") /\ i < j /\ log[c][i].cx = log[c][j].cx
\* the arguments the handler of resume event i was invoked with: the value
\* the chain carries from that invocation until the first resume
CarriedAt(c, i) == log[c][CHOOSE s \in StartIdx(c) : log[c][s].cx = log[c][i].cx].a

\* the second call is not honoured and the next handler starts once
C5_SecondIgnored ==
    \A c \in Chains :
        LET R == ResumeIdx(c)
        IN  \A i \in R : \A j \in {k \in R : SameContext(c, i, k)} :
              /\ log[c][j].m = "nop"
              /\ (log[c][i].m = "hon" /\ NextOf(c, i, "start") # 0) =>
                     LET n == NextOf(c, i, "start")
                     IN  \A k \in StartIdx(c) : log[c][k].st = log[c][n].st => k = n

\* C5 as stated: the next handler receives the arguments of the first call,
\* whatever they are
C5_FirstCallArguments ==
    /\ C5_SecondIgnored
    /\ \A c \in Chains :
          LET R == ResumeIdx(c)
          IN  \A i \in R : \A j \in {k \in R : SameContext(c, i, k)} :
                (log[c][i].m = "hon" /\ IsUndefined(log[c][i].v)
                    /\ NextOf(c, i, "start") # 0) =>
                       /\ log[c][NextOf(c, i, "start")].a = log[c][i].a
                       /\ log[c][NextOf(c, i, "start")].m = "ok"

\* C5 amended, on the history: the arguments of the first call when there is
\* at least one, the carried value when there is none
C5_FirstCallWins ==
    /\ C5_SecondIgnored
    /\ \A c \in Chains :
          LET R == ResumeIdx(c)
          IN  \A i \in R : \A j \in {k \in R : SameContext(c, i, k)} :
                (log[c][i].m = "hon" /\ IsUndefined(log[c][i].v)
                    /\ NextOf(c, i, "start") # 0) =>
                       /\ log[c][NextOf(c, i, "start")].a =
                             IF Len(log[c][i].a) > 0 THEN log[c][i].a ELSE CarriedAt(c, i)
                       /\ log[c][NextOf(c, i, "start")].m = "ok"

\* the position in the history of c of the call made in this step
CallIdx(c) == Len(log[c]) + 1
\* a step in which a context that was already resumed is resumed again
SecondCall(c) ==
    /\ Len(log'[c]) > Len(log[c])
    /\ log'[c][CallIdx(c)].e = "async"
    /\ log'[c][CallIdx(c)].m = "next"
    /\ ctxs[log'[c][CallIdx(c)].cx].nextOnce
\* a step in which the context of a handler that suspended is resumed for the
\* first time
FirstCall(c) ==
    /\ Len(log'[c]) > Len(log[c])
    /\ log'[c][CallIdx(c)].e = "async"
    /\ log'[c][CallIdx(c)].m = "next"
    /\ ctxs[log'[c][CallIdx(c)].cx].skip
    /\ ~ctxs[log'[c][CallIdx(c)].cx].nextOnce
\* what that call hands on: its arguments, or the value the chain carries
HandedOn(c) ==
    IF Len(log'[c][CallIdx(c)].a) > 0
    THEN log'[c][CallIdx(c)].a
    ELSE ArgsOf(chains[c].value)
\* the handler starts of the step, after the call
StartedInCall(c) == {n \in (CallIdx(c) + 1)..Len(log'[c]) : log'[c][n].e = "start"}

\* C5 amended, on the call itself: the first handler started by the first
\* call receives what the call hands on; when the queue is empty that is the
\* value the chain carries afterwards
C5_FirstCallHandsOn ==
    \A c \in Chains :
        FirstCall(c) =>
            IF StartedInCall(c) # {}
            THEN LET n == CHOOSE k \in StartedInCall(c) : \A l \in StartedInCall(c) : k <= l
                 IN  log'[c][n].a = HandedOn(c) /\ log'[c][n].m = "ok"
            ELSE ArgsOf(chains'[c].value) = HandedOn(c)

C5_ResumeTwice ==
    /\ []C5_FirstCallWins
    /\ [][C5_FirstCallHandsOn]_vars
    /\ [][\A c \in Chains : SecondCall(c) => chains' = chains]_vars

\* a context was resumed without arguments, then again with (1, 2); the
\* handler started by the first call received the carried value 1, and no
\* handler received (1, 2)
C5_Witness ==
    \E c \in Chains : \E i \in ResumeIdx(c) : \E j \in ResumeIdx(c) :
        /\ SameContext(c, i, j)
        /\ log[c][i].a = <<>> /\ log[c][j].a = <<Sc(1), Sc(2)>>
        /\ log[c][i].m = "hon" /\ log[c][j].m = "nop"
        /\ NextOf(c, i, "start") # 0 /\ NextOf(c, i, "start") < j
        /\ log[c][NextOf(c, i, "start")].a = <<Sc(1)>>
        /\ \A k \in StartIdx(c) : log[c][k].a # <<Sc(1), Sc(2)>>

(***************************************************************************)
(* C6  Attaching to a chain whose immediate flag is false.                 *)
(***************************************************************************)
\* app events of steps attached through chain() while the flag was false
DeferredAttach(c) ==
    {i \in AppIdx(c) : log[c][i].m = "main" /\ log[c][i].v.a[1] = Sc(0)}
\* ... and while the chain was neither draining nor paused
IdleAttach(c) ==
    {i \in DeferredAttach(c) : log[c][i].v.a[2] = Sc(0) /\ log[c][i].v.a[3] = Sc(0)}

\* C6 as stated: the handler is invoked neither inside the attaching call nor
\* before the next tick of the chain
C6_NotBeforeNextTick ==
    \A c \in Chains : \A i \in DeferredAttach(c) :
        /\ i + 1 \in LogIdx(c) /\ Is(c, i + 1, "attached")
        /\ \A k \in StartIdx(c) :
              log[c][k].st = log[c][i].st =>
                  \E t \in LogIdx(c) : i < t /\ t < k /\ Is(c, t, "tick")

\* C6 amended: no handler is invoked inside the attaching call; the handler
\* waits for the next tick of the chain, or for a resume of one of its
\* contexts, when the chain was idle at the attachment, and may run in the
\* turn of the attachment when the chain was draining or paused.
C6_NotInsideCall ==
    \A c \in Chains :
        /\ \A i \in DeferredAttach(c) :
              /\ i + 1 \in LogIdx(c) /\ Is(c, i + 1, "attached")
              /\ log[c][i + 1].st = log[c][i].st
        /\ \A i \in IdleAttach(c) :
              \A k \in {j \in StartIdx(c) : log[c][j].st = log[c][i].st} :
                  \E t \in (i + 1)..(k - 1) :
                      \/ Is(c, t, "tick")
                      \/ Is(c, t, "resume") /\ log[c][t].m = "hon"

\* a handler attached to an idle deferred chain has run after a tick, and a
\* handler attached from inside a running handler has run without one
C6_Witness ==
    \E c \in Chains : \E i \in IdleAttach(c), j \in DeferredAttach(c),
                          k \in StartIdx(c), l \in StartIdx(c) :
        /\ log[c][k].st = log[c][i].st
        /\ log[c][l].st = log[c][j].st
        /\ log[c][j].v.a[2] = Sc(1)
        /\ ~\E t \in LogIdx(c) : j < t /\ t < l /\ Is(c, t, "tick")

(***************************************************************************)
(* C7  Suspension.  After a handler called suspend and returned, no        *)
(* handler of the chain starts before resume is called on the context of   *)
(* that handler; the handler that starts after the resume receives the     *)
(* arguments of the resume.                                                *)
(***************************************************************************)
DelayIdx(c) == {i \in LogIdx(c) : Is(c, i, "delay")}
\* the honoured resume events of the context that suspended at event d
ResumesOf(c, d) ==
    {r \in ResumeIdx(c) : r > d /\ log[c][r].cx = log[c][d].cx /\ log[c][r].m = "hon"}

\* C7, first half: once the handler that suspended at d has returned, every
\* handler that starts was preceded by a resume of the context of d
C7_HeldUntilResume ==
    \A c \in Chains : \A d \in DelayIdx(c) :
        \A e \in {j \in LogIdx(c) : j > d /\ Is(c, j, "end")
                                        /\ log[c][j].cx = log[c][d].cx} :
          \A k \in {j \in StartIdx(c) : j > e} :
            \E r \in ResumesOf(c, d) : r < k

\* C7, second half: the handler that starts after the resume receives
\* exactly the arguments of the resume, however many there are
C7_ExactlyResumeArguments ==
    \A c \in Chains : \A d \in DelayIdx(c) : \A r \in ResumesOf(c, d) :
        (IsUndefined(log[c][r].v) /\ NextOf(c, r, "start") # 0) =>
            /\ log[c][NextOf(c, r, "start")].a = log[c][r].a
            /\ log[c][NextOf(c, r, "start")].m = "ok"

\* C7 as stated: a suspended chain is held until the resume of the context
\* that suspended it, and that resume hands on exactly its arguments
C7_Suspension == C7_HeldUntilResume /\ C7_ExactlyResumeArguments

(***************************************************************************)
(* C8  A chain made by the module-level aCall or nCall: as long as the     *)
(* callback has not been called, `call` has been executed exactly once and *)
(* the chain is suspended, whether or not a step was appended to it.       *)
(***************************************************************************)
InvokeIdx(c) == {i \in LogIdx(c) : Is(c, i, "invoke")}
CalledBack(c) == \E i \in LogIdx(c) : Is(c, i, "callback")

C8_CalledOnceAndSuspended ==
    \A c \in Chains :
        /\ Cardinality(InvokeIdx(c)) <= 1
        /\ ~CalledBack(c) => (Cardinality(InvokeIdx(c)) = 1 /\ chains[c].paused)

(***************************************************************************)
(* C9  then() is a pure observation of the original chain.  The handler    *)
(* that starts next on the original after the observing step sees what the *)
(* observing step saw: the same arguments in success, the same error in    *)
(* failure; and while no handler has started after it, the original still  *)
(* carries that value, or still has that error pending.                    *)
(***************************************************************************)
ObserverIdx(c) == {i \in LogIdx(c) : Is(c, i, "observe")}
\* the observing step of event i has returned
Returned(c, i) == \E j \in LogIdx(c) : j > i /\ Is(c, j, "end") /\ log[c][j].st = log[c][i].st

C9_PureObservation ==
    \A c \in Chains : \A i \in ObserverIdx(c) :
        IF NextOf(c, i, "start") # 0
        THEN /\ log[c][NextOf(c, i, "start")].m = log[c][i].m
             /\ log[c][NextOf(c, i, "start")].a = log[c][i].a
        ELSE Returned(c, i) =>
               IF log[c][i].m = "err"
               THEN chains[c].error = log[c][i].a[1]
               ELSE ArgsOf(chains[c].value) = log[c][i].a /\ IsUndefined(chains[c].error)

(***************************************************************************)
(* C10  all(values) on a non-empty array whose entries all settle in       *)
(* success: the returned chain is resumed when, and only when, every chain *)
(* or thenable entry has delivered, with one array of the length of values *)
(* whose position i holds the plain value of entry i, or the value entry i *)
(* delivered (the array of the values when it delivered several); a        *)
(* handler of the returned chain receives that array as its one argument.  *)
(***************************************************************************)
DeliverIdx == {j \in LogIdx(allst.ch) : Is(allst.ch, j, "deliver")}
\* what entry i contributes: its plain value, or what it delivered
EntryValue(i) ==
    IF ~isThenable(allst.vals[i])
    THEN allst.vals[i]
    ELSE LET a == log[allst.ch][CHOOSE j \in DeliverIdx : log[allst.ch][j].st = i].a
         IN  IF Len(a) = 1 THEN a[1] ELSE Arr(a)
AllDelivered ==
    \A i \in 1..allst.len :
        isThenable(allst.vals[i]) => \E j \in DeliverIdx : log[allst.ch][j].st = i
AllResumes ==
    {j \in ResumeIdx(allst.ch) : log[allst.ch][j].cx = allst.ctx /\ log[allst.ch][j].m = "hon"}

C10_ResultsByIndex ==
    (allst.ch # 0 /\ \A j \in DeliverIdx : log[allst.ch][j].m = "ok") =>
        /\ (AllResumes # {}) <=> AllDelivered
        /\ \A j \in AllResumes :
              /\ log[allst.ch][j].a = <<Arr([i \in 1..allst.len |-> EntryValue(i)])>>
              /\ NextOf(allst.ch, j, "start") # 0 =>
                    log[allst.ch][NextOf(allst.ch, j, "start")].a = log[allst.ch][j].a
        /\ \A k \in StartIdx(allst.ch) :
              log[allst.ch][k].cx # allst.ctx => \E j \in AllResumes : j < k

\* three entries, the two thenables settled last-first (the second one with
\* two values), and a handler of the returned chain has started
C10_Witness ==
    /\ allst.len > 2
    /\ \E i \in DeliverIdx, j \in DeliverIdx :
          /\ i < j /\ log[allst.ch][i].st > log[allst.ch][j].st
          /\ Len(log[allst.ch][i].a) > 1
    /\ \A j \in DeliverIdx : log[allst.ch][j].m = "ok"
    /\ \E k \in StartIdx(allst.ch) : log[allst.ch][k].cx # allst.ctx

(***************************************************************************)
(* C11  all(values) with at least one entry settling in failure: the       *)
(* returned chain is rejected when, and only when, every chain or thenable *)
(* entry has settled; the error pending is the first error delivered, and  *)
(* the failure handler of the returned chain receives that error and the   *)
(* array of errors by index (position i holding the error of entry i).     *)
(***************************************************************************)
ErrDeliverIdx == {j \in DeliverIdx : log[allst.ch][j].m = "err"}
\* the first error delivered
FirstError == log[allst.ch][CHOOSE j \in ErrDeliverIdx : \A k \in ErrDeliverIdx : j <= k].a[1]
\* the error of each failing entry at the entry's index
ErrorsByIndex ==
    [i \in 1..allst.len |->
        IF \E j \in ErrDeliverIdx : log[allst.ch][j].st = i
        THEN log[allst.ch][CHOOSE j \in ErrDeliverIdx : log[allst.ch][j].st = i].a[1]
        ELSE Undef]

C11_RejectedWithErrors ==
    (allst.ch # 0 /\ ErrDeliverIdx # {}) =>
        /\ (AllResumes # {}) <=> AllDelivered
        /\ \A j \in AllResumes :
              /\ log[allst.ch][j].v = FirstError
              /\ NextOf(allst.ch, j, "start") # 0 =>
                    /\ log[allst.ch][NextOf(allst.ch, j, "start")].m = "err"
                    /\ log[allst.ch][NextOf(allst.ch, j, "start")].a =
                          <<FirstError, Arr(ErrorsByIndex)>>

(***************************************************************************)
(* C12  The error history _errors.                                         *)
(***************************************************************************)
IsFailureStart(ev) == ev.e = "start" /\ ev.m = "err"
\* the errors the failure handlers of chain c were invoked with, in order
HandledErrors(c) ==
    [i \in 1..Len(SelectSeq(log[c], IsFailureStart)) |->
        LET a == SelectSeq(log[c], IsFailureStart)[i].a IN a[Len(a)]]
\* no entry of the history of any chain is removed or replaced
HistoryKept ==
    \A c \in Chains :
        /\ Len(chains'[c].errors) >= Len(chains[c].errors)
        /\ SubSeq(chains'[c].errors, 1, Len(chains[c].errors)) = chains[c].errors

\* C12 as stated, its completeness half: the history holds every error that
\* was ever pending, so in every state the error pending now
C12_EveryPendingErrorRecorded ==
    \A c \in Chains :
        ErrorPending(chains[c]) =>
            \E i \in 1..Len(chains[c].errors) : chains[c].errors[i] = chains[c].error

\* C12 amended: the history is append-only and holds, in order, exactly the
\* errors that failure handlers were invoked with
C12_HandledErrorsRecorded ==
    /\ [][HistoryKept]_vars
    /\ [](\A c \in Chains : chains[c].errors = HandledErrors(c))

\* two errors were handled, the second thrown by the handler of the first,
\* and the chain has recovered
C12_Witness ==
    \E c \in Chains :
        /\ Len(chains[c].errors) = 2
        /\ chains[c].errors[1] # chains[c].errors[2]
        /\ ~ErrorPending(chains[c])

(***************************************************************************)
(* C13  spread(handler).  When the step appended by spread is invoked      *)
(* with exactly one argument that is an array, handler is called with the  *)
(* elements of the array as its arguments (none for the empty array); with *)
(* exactly one argument that is not an array, with that argument; with     *)
(* several arguments, with the same arguments.                             *)
(***************************************************************************)
\* the call events of spread on chain c; st is the step holding _callback
SpreadIdx(c) == {i \in LogIdx(c) : Is(c, i, "call") /\ log[c][i].m = "spread"}
\* what handler is to be called with when _callback is called with a
Spreaded(a) ==
    IF Len(a) = 1 THEN (IF IsArray(a[1]) THEN a[1].a ELSE a) ELSE a

C13_SpreadArguments ==
    \A c \in Chains : \A i \in SpreadIdx(c) :
        \A k \in {j \in StartIdx(c) : log[c][j].st = log[c][i].st} :
            \A h \in {j \in StartIdx(c) : log[c][j].st = log[c][i].st + 1} :
                Len(log[c][k].a) > 0 => log[c][h].a = Spreaded(log[c][k].a)

(***************************************************************************)
(* C14  The priority queue is merged before the emptiness test.  A chain   *)
(* is marked not-resolving only when both its queues are empty; and a step *)
(* injected through a context does not stay behind in the priority queue   *)
(* when the drain that ran the injecting handler has ended, i.e. when the  *)
(* chain is neither paused nor waiting for a tick.                         *)
(***************************************************************************)
C14_MergedBeforeEmptinessTest ==
    \A c \in Chains :
        /\ ~chains[c].resolving =>
              (Len(chains[c].pending) = 0 /\ Len(chains[c].unPending) = 0)
        /\ (~chains[c].paused /\ \A t \in 1..Len(ticks) : ticks[t] # c) =>
              Len(chains[c].unPending) = 0

(***************************************************************************)
(* C15  Adapter steps injected with this.aCall / this.nCall.  The step     *)
(* suspends the chain and calls the external function; when the callback   *)
(* is called the chain is resumed: the call of the callback is followed by *)
(* an honoured resume, after a truthy first argument of nCall that         *)
(* argument is the pending error, and otherwise the handler that starts    *)
(* next receives the arguments of the callback (for nCall, those after the *)
(* first).                                                                 *)
(***************************************************************************)
CallbackIdx(c) == {i \in LogIdx(c) : Is(c, i, "callback")}
\* the callback of event j reports an error
ReportsError(c, j) == log[c][j].m = "nCall" /\ Truthy(log[c][j].a[1])

C15_CallbackResumes ==
    \A c \in Chains :
        /\ \A i \in InvokeIdx(c) :
              /\ i > 1 /\ Is(c, i - 1, "delay") /\ log[c][i - 1].cx = log[c][i].cx
              /\ (~\E j \in CallbackIdx(c) : log[c][j].st = log[c][i].st) => chains[c].paused
        /\ \A j \in CallbackIdx(c) :
              /\ j + 1 \in ResumeIdx(c) /\ log[c][j + 1].m = "hon"
              /\ ReportsError(c, j) => log[c][j + 1].v = log[c][j].a[1]
              /\ (~ReportsError(c, j) /\ NextOf(c, j, "start") # 0) =>
                    /\ log[c][NextOf(c, j, "start")].m = "ok"
                    /\ log[c][NextOf(c, j, "start")].a =
                          IF log[c][j].m = "nCall" THEN Tail(log[c][j].a) ELSE log[c][j].a

(***************************************************************************)
(* C16  Liveness of the drain.  With every scheduled tick eventually run   *)
(* and every suspension eventually resumed or settled, every step appended *)
(* through the public chain is eventually dequeued; and whenever a chain   *)
(* is not paused and has no tick scheduled (no handler runs between two    *)
(* steps of the model), its main queue is empty and it is not resolving.   *)
(***************************************************************************)
\* the identities a step can have: the steps appended from the top level and
\* the listeners the engine attaches to returned chains
StepIds == 1..(2 * MaxSteps)
AppendedMain(st) ==
    \E c \in Chains : \E i \in AppIdx(c) : log[c][i].st = st /\ log[c][i].m = "main"
Dequeued(st) == \E c \in Chains : \E i \in DeqIdx(c) : log[c][i].st = st
TickScheduled(c) == \E t \in 1..Len(ticks) : ticks[t] = c

C16_AtRest ==
    \A c \in Chains :
        (chains[c].ref /\ ~chains[c].paused /\ ~TickScheduled(c)) =>
            (Len(chains[c].pending) = 0 /\ ~chains[c].resolving)

C16_EventuallyDequeued ==
    /\ []C16_AtRest
    /\ \A st \in StepIds : AppendedMain(st) ~> Dequeued(st)

\* a step was appended while its chain was suspended on the other chain, and
\* a step appended while its chain was suspended by a handler; both have
\* been dequeued
C16_Witness ==
    /\ \E c \in Chains : \E i \in LogIdx(c) : Is(c, i, "nest")
    /\ \E c \in Chains : \E i \in AppIdx(c) :
          /\ log[c][i].m = "main" /\ log[c][i].v.a[3] = Sc(1)
          /\ Dequeued(log[c][i].st)
    /\ \E c \in Chains : \E i \in ResumeIdx(c) : log[c][i].m = "hon"

(***************************************************************************)
(* C17  No overlapping dequeue cycles.  While a handler of a chain is      *)
(* executing (its call has started and not yet ended), no step of that     *)
(* chain is dequeued, whether the handler calls chain or resolve on the    *)
(* chain or next or reject on its own context.                             *)
(***************************************************************************)
EndIdx(c) == {i \in LogIdx(c) : Is(c, i, "end")}
\* the handler whose call started at i is still executing at j
Executing(c, i, j) ==
    i < j /\ ~\E k \in EndIdx(c) : i < k /\ k < j /\ log[c][k].cx = log[c][i].cx

C17_NoOverlappingCycles ==
    \A c \in Chains : \A i \in StartIdx(c) : \A j \in DeqIdx(c) : ~Executing(c, i, j)

\* the part the resolving flag does guard: a dequeue inside an executing
\* handler is always preceded, inside that handler, by an honoured next
C17_OnlyThroughNext ==
    \A c \in Chains : \A i \in StartIdx(c) : \A j \in DeqIdx(c) :
        Executing(c, i, j) =>
            \E k \in ResumeIdx(c) : i < k /\ k < j /\ log[c][k].m = "hon"

(***************************************************************************)
(* C18  A settled context is inert.  Once a handler has returned without   *)
(* suspending, or once its context's resume has been honoured, a later     *)
(* call of resume or reject on that context leaves the chain's value,      *)
(* pending error, paused flag and queues as they were and dequeues no      *)
(* step.                                                                   *)
(***************************************************************************)
\* the handler of context x returned without suspending, or x was resumed
SettledContext(x) == ctxs[x].nextOnce \/ ~ctxs[x].skip

\* a step in which resume or reject is called from the event loop on x
LaterCall(c, x) ==
    /\ Len(log'[c]) > Len(log[c])
    /\ log'[c][Len(log[c]) + 1].e = "async"
    /\ log'[c][Len(log[c]) + 1].cx = x

Inert(c) ==
    /\ chains'[c].value = chains[c].value
    /\ chains'[c].error = chains[c].error
    /\ chains'[c].paused = chains[c].paused
    /\ chains'[c].pending = chains[c].pending
    /\ chains'[c].unPending = chains[c].unPending
    /\ \A i \in (Len(log[c]) + 1)..Len(log'[c]) : log'[c][i].e # "deq"

C18_SettledContextInert ==
    [][\A c \in Chains : \A x \in 1..Len(ctxs) :
          (SettledContext(x) /\ LaterCall(c, x)) => Inert(c)]_vars

\* what holds of the once-only guard: a resume on a context whose resume was
\* honoured changes nothing
C18_ResumedContextInert ==
    [][\A c \in Chains : \A x \in 1..Len(ctxs) :
          (ctxs[x].nextOnce /\ LaterCall(c, x) /\ log'[c][Len(log[c]) + 1].m = "next")
              => Inert(c)]_vars

(***************************************************************************)
(* C19  The scheduling mode of a trigger.  A trigger on a chain whose      *)
(* immediate flag is false defers the drain to the next tick and leaves    *)
(* the flag equal to the process-wide default; a trigger on a chain whose  *)
(* flag is true drains inside the triggering call.                         *)
(***************************************************************************)
\* a step in which resolution is triggered on c and handed to the event loop
DeferredTrigger(c) ==
    /\ Len(ticks') = Len(ticks) + 1
    /\ ticks'[Len(ticks')] = c

\* a step in which resolution is triggered on c and a step is taken at once
ImmediateTrigger(c) ==
    /\ c \in Chains
    /\ ~chains[c].resolving /\ chains[c].immediate /\ ~chains[c].paused
    /\ Len(chains[c].pending) = 0
    /\ Len(log'[c]) > Len(log[c])
    /\ log'[c][Len(log[c]) + 1].e = "call"

C19_ImmediateInsideCall ==
    [][\A c \in Chains : ImmediateTrigger(c) =>
          /\ ticks' = ticks
          /\ \E i \in (Len(log[c]) + 1)..Len(log'[c]) : log'[c][i].e = "deq"]_vars

C19_DeferredThenDefault ==
    /\ [][\A c \in 1..Len(chains') : DeferredTrigger(c) =>
            chains'[c].immediate = gImmediate']_vars
    /\ C19_ImmediateInsideCall

\* what the deferred branch does: the flag stays false, whatever the default
C19_DeferredStaysDeferred ==
    [][\A c \in 1..Len(chains') : DeferredTrigger(c) => ~chains'[c].immediate]_vars

(***************************************************************************)
(* C20  all(values) settles once.  No later step of the returned chain     *)
(* starts before every chain or thenable entry has settled, in success or  *)
(* in failure; each entry counts once, a listener called a second time     *)
(* changes neither the count nor the results nor the chain; and the        *)
(* returned chain is resumed or rejected exactly once, when the last entry *)
(* has settled.                                                            *)
(***************************************************************************)
\* entry i settled before position j of the history of the returned chain
SettledBefore(i, j) == \E d \in DeliverIdx : d < j /\ log[allst.ch][d].st = i
PlainEntries == {i \in 1..allst.len : ~isThenable(allst.vals[i])}

C20_SuspendedUntilSettled ==
    allst.ch # 0 =>
        \A j \in StartIdx(allst.ch) :
            log[allst.ch][j].cx # allst.ctx =>
                \A i \in (1..allst.len) \ PlainEntries : SettledBefore(i, j)

C20_EachEntryOnce ==
    allst.ch # 0 =>
        /\ \A d \in DeliverIdx : \A e \in DeliverIdx :
              log[allst.ch][d].st = log[allst.ch][e].st => d = e
        /\ allst.complete = Cardinality(PlainEntries) + Cardinality(DeliverIdx)

C20_ResumedOnce ==
    allst.ch # 0 =>
        /\ Cardinality(AllResumes) <= 1
        /\ (AllResumes # {}) <=> AllDelivered

\* a step in which a listener of all() is called a second time
SecondFiring ==
    /\ allst.ch # 0
    /\ Len(log'[allst.ch]) > Len(log[allst.ch])
    /\ log'[allst.ch][Len(log[allst.ch]) + 1].e = "again"

C20_SettlesOnce ==
    /\ [](C20_SuspendedUntilSettled /\ C20_EachEntryOnce /\ C20_ResumedOnce)
    /\ [][SecondFiring => (allst' = allst /\ chains' = chains /\ ctxs' = ctxs)]_vars

\* both entries settled, one of them in failure, one called its listener a
\* second time before the other settled, and a handler of the returned chain
\* has run
C20_Witness ==
    /\ allst.ch # 0 /\ allst.len = 2 /\ AllDelivered
    /\ \E d \in DeliverIdx : log[allst.ch][d].m = "err"
    /\ \E j \in LogIdx(allst.ch) : \E d \in DeliverIdx :
          Is(allst.ch, j, "again") /\ j < d
    /\ \E j \in StartIdx(allst.ch) : log[allst.ch][j].cx # allst.ctx

====
